---------------------------- MODULE Spec2Model ----------------------------
(***************************************************************************)
(* Flux observers for induction machine drives (motulator.control.im) and  *)
(* the diode-bridge frequency converter plant model (motulator.model).     *)
(*                                                                         *)
(* Python floats are modelled as fixed-point numbers: the integer n stands *)
(* for the real n/Scale.  Complex numbers are records [re, im] of such     *)
(* numbers.  Angles are radians in the same fixed-point grid, so that pi   *)
(* is the integer PI.                                                      *)
(***************************************************************************)
EXTENDS Integers, Sequences, FiniteSets, TLC

VARIABLES
    kind,        \* class of the constructed observer, "none" before construction
    err,         \* exception raised by the constructor, "none" if none
    par,         \* self.par: the ModelPars object (aliased, not copied)
    par0,        \* the fields of the ModelPars object when the observer was constructed
    sensorless,  \* self.sensorless
    T_s,         \* self.T_s (reduced-order observer only)
    gain,        \* self.gain: alpha_o, k_o, and alpha_i, g in the full-order variant
    state,       \* self.state
    work,        \* self._work
    fbk,         \* the feedback record handed to and returned by output
    loc,         \* locals of the last output call: den, num, the guarded
                 \* divisions it performed, each with its divisor, and the
                 \* derivatives d_psi_R, d_w_m, d_i_s it computed
    pre,         \* self.state as it was when the last operation was called
    op,          \* the last operation called
    nupd,        \* number of update calls so far
    T_arg,       \* the T_s argument of the last update call, 0 before any
    conv         \* FrequencyConverter: arguments and result of the last call of f

vars == <<kind, err, par, par0, sensorless, T_s, gain, state, work, fbk, loc,
          pre, op, nupd, T_arg, conv>>

obsVars == <<kind, err, par, par0, sensorless, T_s, gain, state, work, fbk,
             loc, pre, nupd, T_arg>>

-----------------------------------------------------------------------------
(* Bounds of the model *)

\* largest number of update calls explored
MaxSteps == 2

\* largest magnitude (fixed-point) of a state variable update may store
MaxAbs == 300

-----------------------------------------------------------------------------
(* Fixed-point arithmetic standing for Python float and complex arithmetic *)

\* resolution of the fixed-point grid: 1.0 is Scale
Scale == 10

\* np.pi on the grid
PI == 31

Abs(x) == IF x < 0 THEN -x ELSE x

\* quotient rounded toward zero
Quot(a, b) ==
    IF b > 0
    THEN (IF a >= 0 THEN a \div b ELSE -((-a) \div b))
    ELSE (IF a >= 0 THEN -(a \div (-b)) ELSE (-a) \div (-b))

\* a*b and a/b of floats
Mul(a, b) == Quot(a * b, Scale)
Div(a, b) == Quot(a * Scale, b)

Cx(r, i) == [re |-> r, im |-> i]
CZero == Cx(0, 0)
CReal(r) == Cx(r, 0)
CAdd(a, b) == Cx(a.re + b.re, a.im + b.im)
CSub(a, b) == Cx(a.re - b.re, a.im - b.im)
CConj(a) == Cx(a.re, -a.im)
CMul(a, b) == Cx(Mul(a.re, b.re) - Mul(a.im, b.im),
                 Mul(a.re, b.im) + Mul(a.im, b.re))
\* real r times complex a
RMul(r, a) == Cx(Mul(r, a.re), Mul(r, a.im))
\* complex a divided by real r
RDiv(a, r) == Cx(Div(a.re, r), Div(a.im, r))
\* complex a divided by complex b
CDiv(a, b) ==
    LET n == CMul(a, CConj(b))
        d == Mul(b.re, b.re) + Mul(b.im, b.im)
    IN  RDiv(n, d)
CAbs(a) == IF Abs(a.re) > Abs(a.im) THEN Abs(a.re) ELSE Abs(a.im)

\* cos and sin of k/Scale rad, k = 0 .. PI, on the grid
CosTab == <<10, 10, 10, 10, 9, 9, 8, 8, 7, 6, 5, 5, 4, 3, 2, 1, 0, -1, -2, -3,
            -4, -5, -6, -7, -7, -8, -9, -9, -9, -10, -10, -10>>
SinTab == <<0, 1, 2, 3, 4, 5, 6, 6, 7, 8, 8, 9, 9, 10, 10, 10, 10, 10, 10, 9,
            9, 9, 8, 7, 7, 6, 5, 4, 3, 2, 1, 0>>

\* representative of the angle x in (-PI, PI]
Wrap(x) == ((x + PI - 1) % (2 * PI)) - PI + 1

Cos(x) == CosTab[Abs(Wrap(x)) + 1]
Sin(x) == LET w == Wrap(x) IN IF w < 0 THEN -SinTab[-w + 1] ELSE SinTab[w + 1]

\* np.exp(-1j*theta)*z
Rot(theta, z) == CMul(Cx(Cos(theta), -Sin(theta)), z)


-----------------------------------------------------------------------------
(* Parameter records: ModelPars, ObserverPars, FullOrderObserverPars *)

\* ModelPars objects the observers are constructed with (R_s, R_R, L_sgm and
\* L_M on the grid, n_p an int)
ModelPars ==
    { [R_s |-> 10, R_R |-> r, L_sgm |-> 10, L_M |-> 20, n_p |-> 2, J |-> 10] :
        r \in {10} }

\* the k_o argument of ObserverPars: None, or a caller-supplied gain function
\* (the pure voltage model lambda w_m: 0, the current model lambda w_m: 1)
KoArgs == {"None", "voltage", "current"}

\* ObserverPars.__post_init__: the gain function object stored in gain.k_o
PostInit_k_o(sl, k_o) ==
    IF k_o = "None"
    THEN (IF sl THEN "default_sensorless" ELSE "default_sensored")
    ELSE k_o

\* ObserverPars.__post_init__: gain = SimpleNamespace(alpha_o, k_o); alpha is
\* the value the default gain functions close over
ObserverParsGain(p, sl, alpha_o, k_o) ==
    [alpha_o |-> alpha_o, k_o |-> PostInit_k_o(sl, k_o),
     alpha |-> Div(p.R_R, p.L_M)]

\* FullOrderObserverPars.__post_init__: adds gain.alpha_i and gain.g
FullOrderObserverParsGain(p, sl, alpha_o, k_o, alpha_i) ==
    [alpha_i |-> alpha_i, g |-> alpha_i - Div(p.R_R, p.L_M)]
        @@ ObserverParsGain(p, sl, alpha_o, k_o)

\* the gain function gain.k_o applied to w_m
K_o(g, w_m) ==
    CASE g.k_o = "default_sensorless" ->
            CDiv(CReal(Mul(5, g.alpha) + Mul(2, Abs(w_m))), Cx(g.alpha, -w_m))
      [] g.k_o = "default_sensored" ->
            CAdd(CReal(Scale), CDiv(CReal(Mul(2, Abs(w_m))), Cx(g.alpha, -w_m)))
      [] g.k_o = "voltage" -> CZero
      [] g.k_o = "current" -> CReal(Scale)

\* observer bandwidth alpha_o and current estimation bandwidth alpha_i the
\* parameter records are built with
AlphaO == 10
AlphaI == 20

\* sampling periods
TsSet == {5, 10}

\* measured signals handed to output
ISS == {Cx(10, 0), Cx(-10, 0), Cx(0, 10)}
USS == {Cx(0, 0), Cx(10, 0)}
WM  == {10}

-----------------------------------------------------------------------------
(* Construction *)

NoRec == [x \in {} |-> 0]

Init ==
    /\ kind = "none"
    /\ err = "none"
    /\ par = NoRec
    /\ par0 = NoRec
    /\ sensorless = FALSE
    /\ T_s = 0
    /\ gain = NoRec
    /\ state = NoRec
    /\ work = NoRec
    /\ fbk = NoRec
    /\ loc = NoRec
    /\ pre = NoRec
    /\ op = "init"
    /\ nupd = 0
    /\ T_arg = 0
    /\ conv = NoRec

\* Observer.__init__
ObserverInit(p, sl, k_o, ts) ==
    /\ kind = "none" /\ err = "none"
    /\ par' = p
    /\ par0' = p
    /\ sensorless' = sl
    /\ T_s' = ts
    /\ gain' = ObserverParsGain(p, sl, AlphaO, k_o)
    /\ state' = [psi_R |-> 0, theta_s |-> 0, w_m |-> 0]
    /\ work' = [d_psi_R |-> 0, d_w_m |-> 0, old_i_s |-> CZero]
    /\ kind' = "Observer"
    /\ op' = "init_Observer"
    /\ pre' = NoRec
    /\ UNCHANGED <<err, fbk, loc, nupd, T_arg, conv>>

\* FullOrderObserver.__init__ without the sensored-mode check
FullOrderObserverNeverRaises(sl) == FALSE

\* FullOrderObserver.__init__: raises when not sensorless
FullOrderObserverRaises(sl) == ~sl

FullOrderObserverInit(p, sl, k_o) ==
    /\ kind = "none" /\ err = "none"
    /\ par' = p
    /\ par0' = p
    /\ sensorless' = sl
    /\ gain' = FullOrderObserverParsGain(p, sl, AlphaO, k_o, AlphaI)
    /\ state' = [psi_R |-> 0, i_s |-> CZero, theta_s |-> 0, w_m |-> 0]
    /\ work' = [d_psi_R |-> 0, d_i_s |-> CZero, d_w_m |-> 0]
    /\ IF FullOrderObserverRaises(sl)
       THEN /\ err' = "NotImplementedError"
            /\ kind' = "none"
       ELSE /\ err' = "none"
            /\ kind' = "FullOrderObserver"
    /\ op' = "init_FullOrderObserver"
    /\ pre' = NoRec
    /\ UNCHANGED <<T_s, fbk, loc, nupd, T_arg, conv>>

-----------------------------------------------------------------------------
(* Observer: the reduced-order flux observer *)

\* w_s of Observer.output with a fallback of 0 instead of fbk.w_m
Observer_w_s_ZeroFallback(num, den, w_m) ==
    IF den > 0
    THEN [val |-> Div(num, den), div |-> {<<"w_s", den>>}]
    ELSE [val |-> 0, div |-> {}]

\* fbk.w_s = num/den if den > 0 else fbk.w_m; div records the division made
Observer_w_s(num, den, w_m) ==
    IF den > 0
    THEN [val |-> Div(num, den), div |-> {<<"w_s", den>>}]
    ELSE [val |-> w_m, div |-> {}]

\* w_r of Observer.output guarded by psi_R != 0 instead of psi_R > 0
Observer_w_r_NonZeroGuard(R_R, i_s, psi_R) ==
    IF psi_R # 0
    THEN [val |-> Div(Mul(R_R, i_s.im), psi_R), div |-> {<<"w_r", psi_R>>}]
    ELSE [val |-> 0, div |-> {}]

\* fbk.w_r = par.R_R*fbk.i_s.imag/fbk.psi_R if fbk.psi_R > 0 else 0
Observer_w_r(R_R, i_s, psi_R) ==
    IF psi_R > 0
    THEN [val |-> Div(Mul(R_R, i_s.im), psi_R), div |-> {<<"w_r", psi_R>>}]
    ELSE [val |-> 0, div |-> {}]

\* the frequency-solving denominator of Observer.output
Observer_den(psi_R, i_s, k_o1, k_o2) ==
    psi_R + Mul(par.L_sgm,
                CAdd(CMul(CSub(CReal(Scale), k_o1), i_s),
                     CMul(k_o2, CConj(i_s))).re)

\* Observer.output on the measured signals in: the fields it sets on fbk, the
\* derivatives it stores in _work, and the guarded divisions it performs
ObserverOutputValues(in) ==
    LET psi_R == state.psi_R
        theta_s == state.theta_s
        w_m == IF sensorless THEN state.w_m ELSE in.w_m
        i_s == Rot(theta_s, in.i_ss)
        u_s == Rot(theta_s, in.u_ss)
        psi_s == CAdd(RMul(par.L_sgm, i_s), CReal(psi_R))
        d_i_s == RDiv(CSub(i_s, work.old_i_s), T_s)
        v_s == CSub(CSub(u_s, RMul(par.R_s, i_s)), RMul(par.L_sgm, d_i_s))
        v_r == CSub(RMul(par.R_R, i_s),
                    RMul(psi_R, Cx(Div(par.R_R, par.L_M), -w_m)))
        k_o1 == K_o(gain, w_m)
        k_o2 == IF sensorless THEN k_o1 ELSE CZero
        den == Observer_den(psi_R, i_s, k_o1, k_o2)
        e == CSub(v_r, v_s)
        num == CAdd(CAdd(v_s, CMul(k_o1, e)), CMul(k_o2, CConj(e))).im
        w_s == Observer_w_s(num, den, w_m)
        w_r == Observer_w_r(par.R_R, i_s, psi_R)
        v == CSub(v_s, CMul(Cx(0, Mul(w_s.val, par.L_sgm)), i_s))
        e2 == CSub(v_r, v)
    IN  [fbk |-> [psi_R |-> psi_R, theta_s |-> theta_s, w_m |-> w_m,
                  i_s |-> i_s, u_s |-> u_s, psi_s |-> psi_s,
                  w_s |-> w_s.val, w_r |-> w_r.val],
         d_psi_R |-> CAdd(CAdd(v, CMul(k_o1, e2)), CMul(k_o2, CConj(e2))).re,
         d_w_m |-> Mul(gain.alpha_o, w_s.val - w_r.val - w_m),
         d_i_s |-> d_i_s,
         den |-> den,
         num |-> num,
         divs |-> w_s.div \cup w_r.div]

\* Observer.output committing the flux derivative it has just computed
ObserverOutputStateCommits(o) ==
    [state EXCEPT !.psi_R = @ + Mul(T_s, o.d_psi_R)]

\* the state Observer.output leaves behind
ObserverOutputState(o) == state

\* Observer.output(fbk), fbk holding the measured signals in
ObserverOutput(in) ==
    /\ kind = "Observer"
    /\ \E o \in {ObserverOutputValues(in)} :
           /\ fbk' = o.fbk @@ in
           /\ work' = [work EXCEPT !.d_psi_R = o.d_psi_R, !.d_w_m = o.d_w_m]
           /\ loc' = [den |-> o.den, num |-> o.num, divs |-> o.divs,
                       d_psi_R |-> o.d_psi_R, d_w_m |-> o.d_w_m,
                       d_i_s |-> o.d_i_s]
           /\ state' = ObserverOutputState(o)
    /\ pre' = state
    /\ op' = "output"
    /\ UNCHANGED <<kind, err, par, par0, sensorless, T_s, gain, nupd, T_arg,
                   conv>>

\* the states update may store in this model
InRange(st) ==
    /\ Abs(st.psi_R) <= MaxAbs
    /\ Abs(st.w_m) <= MaxAbs
    /\ "i_s" \in DOMAIN st => CAbs(st.i_s) <= MaxAbs

\* Observer.update with the angle left unwrapped
ObserverUpdateStateNoWrap(T, f) ==
    [psi_R |-> state.psi_R + Mul(T, work.d_psi_R),
     theta_s |-> state.theta_s + Mul(T, f.w_s),
     w_m |-> state.w_m + Mul(T, work.d_w_m)]

\* Observer.update integrating over the stored self.T_s instead of the
\* T_s it is called with
ObserverUpdateStateOldTs(T, f) ==
    [psi_R |-> state.psi_R + Mul(T_s, work.d_psi_R),
     theta_s |-> Wrap(state.theta_s + Mul(T_s, f.w_s)),
     w_m |-> state.w_m + Mul(T_s, work.d_w_m)]

\* Observer.update: the new self.state
ObserverUpdateState(T, f) ==
    [psi_R |-> state.psi_R + Mul(T, work.d_psi_R),
     theta_s |-> Wrap(state.theta_s + Mul(T, f.w_s)),
     w_m |-> state.w_m + Mul(T, work.d_w_m)]

\* Observer.update that does not store the old current
ObserverUpdateKeepsOldCurrent(T) ==
    /\ kind = "Observer"
    /\ "w_s" \in DOMAIN fbk
    /\ nupd < MaxSteps
    /\ InRange(ObserverUpdateState(T, fbk))
    /\ state' = ObserverUpdateState(T, fbk)
    /\ T_s' = T
    /\ pre' = state
    /\ op' = "update"
    /\ nupd' = nupd + 1
    /\ T_arg' = T
    /\ UNCHANGED <<kind, err, par, par0, sensorless, gain, work, fbk, loc,
                   conv>>

\* Observer.update(T_s, fbk), fbk the record the last output returned
ObserverUpdate(T) ==
    /\ kind = "Observer"
    /\ "w_s" \in DOMAIN fbk
    /\ nupd < MaxSteps
    /\ InRange(ObserverUpdateState(T, fbk))
    /\ state' = ObserverUpdateState(T, fbk)
    /\ T_s' = T
    /\ work' = [work EXCEPT !.old_i_s = fbk.i_s]
    /\ pre' = state
    /\ op' = "update"
    /\ nupd' = nupd + 1
    /\ T_arg' = T
    /\ UNCHANGED <<kind, err, par, par0, sensorless, gain, fbk, loc, conv>>

-----------------------------------------------------------------------------
(* FullOrderObserver: the full-order flux observer *)

\* FullOrderObserver.output: par.R_sgm and par.alpha are set on self.par
FullOrderObserverOutputPar(p) ==
    [R_sgm |-> p.R_s + p.R_R, alpha |-> Div(p.R_R, p.L_M)] @@ p

\* the P term of the PI-type speed adaptation
FullOrderObserver_p_term(err_i_s, psi_R) ==
    IF psi_R > 0
    THEN [val |-> Div(Mul(Mul(-gain.alpha_o, par.L_sgm), err_i_s.im), psi_R),
          div |-> {<<"p_term", psi_R>>}]
    ELSE [val |-> 0, div |-> {}]

\* w_s of FullOrderObserver.output guarded by den != 0 instead of den > 0
FullOrderObserver_w_s_NonZeroGuard(num, den, w_m) ==
    IF den # 0
    THEN [val |-> w_m + Div(num, den), div |-> {<<"w_s", den>>}]
    ELSE [val |-> w_m, div |-> {}]

\* fbk.w_s = w_m + num/den if den > 0 else w_m, w_m being the PI speed
\* estimate p_term + state.w_m
FullOrderObserver_w_s(num, den, w_m) ==
    IF den > 0
    THEN [val |-> w_m + Div(num, den), div |-> {<<"w_s", den>>}]
    ELSE [val |-> w_m, div |-> {}]

\* derivative of the integral term of the speed estimate
FullOrderObserver_d_w_m(err_i_s, psi_R) ==
    IF psi_R > 0
    THEN [val |-> Div(Mul(Mul(Mul(-gain.alpha_o, gain.alpha_i), par.L_sgm),
                          err_i_s.im), psi_R),
          div |-> {<<"d_w_m", psi_R>>}]
    ELSE [val |-> 0, div |-> {}]

\* the fields FullOrderObserver.output sets on fbk
FullOrderObserverOutputFbk(psi_R, theta_s, w_m, i_s, u_s, psi_s, w_s) ==
    [psi_R |-> psi_R, theta_s |-> theta_s, w_m |-> w_m, i_s |-> i_s,
     u_s |-> u_s, psi_s |-> psi_s, w_s |-> w_s]

\* FullOrderObserver.output on the measured signals in
FullOrderObserverOutputValues(in) ==
    LET p == FullOrderObserverOutputPar(par)
        psi_R == state.psi_R
        theta_s == state.theta_s
        i_s == Rot(theta_s, in.i_ss)
        u_s == Rot(theta_s, in.u_ss)
        psi_s == CAdd(RMul(p.L_sgm, state.i_s), CReal(psi_R))
        err_i_s == CSub(i_s, state.i_s)
        p_term == FullOrderObserver_p_term(err_i_s, psi_R)
        w_m == p_term.val + state.w_m
        den == psi_R - Mul(p.L_sgm, err_i_s.re)
        k == K_o(gain, w_m)
        num == Mul(p.R_R, i_s.im)
               + Mul(p.L_sgm, Mul(Mul(gain.alpha_i, k.im), err_i_s.re)
                              - Mul(gain.g, err_i_s.im))
        w_s == FullOrderObserver_w_s(num, den, w_m)
        k_i == Cx(Mul(p.L_sgm, gain.g) - p.R_sgm,
                  -Mul(p.L_sgm, w_s.val - w_m))
        d_w_m == FullOrderObserver_d_w_m(err_i_s, psi_R)
    IN  [fbk |-> FullOrderObserverOutputFbk(psi_R, theta_s, state.w_m, i_s,
                                            u_s, psi_s, w_s.val),
         d_i_s |-> RDiv(CAdd(CAdd(CSub(u_s,
                                       CMul(Cx(p.R_sgm, Mul(w_s.val, p.L_sgm)),
                                            state.i_s)),
                                  RMul(psi_R, Cx(p.alpha, -w_m))),
                             CMul(k_i, err_i_s)),
                        p.L_sgm),
         d_psi_R |-> Mul(-p.alpha, psi_R) + Mul(p.R_R, i_s.re)
                     + Mul(Mul(Mul(gain.alpha_i, k.re) - gain.g, p.L_sgm),
                           err_i_s.re)
                     - Mul(Mul(w_s.val - w_m, p.L_sgm), err_i_s.im),
         d_w_m |-> d_w_m.val,
         w_m |-> w_m,
         den |-> den,
         num |-> num,
         divs |-> p_term.div \cup w_s.div \cup d_w_m.div]

\* the state FullOrderObserver.output leaves behind
FullOrderObserverOutputState(o) == state

\* FullOrderObserver.output(fbk), fbk holding the measured signals in
FullOrderObserverOutput(in) ==
    /\ kind = "FullOrderObserver"
    /\ \E o \in {FullOrderObserverOutputValues(in)} :
           /\ fbk' = o.fbk @@ in
           /\ work' = [d_psi_R |-> o.d_psi_R, d_i_s |-> o.d_i_s,
                       d_w_m |-> o.d_w_m]
           /\ loc' = [den |-> o.den, num |-> o.num, divs |-> o.divs,
                       d_psi_R |-> o.d_psi_R, d_w_m |-> o.d_w_m,
                       d_i_s |-> o.d_i_s]
           /\ state' = FullOrderObserverOutputState(o)
    /\ par' = FullOrderObserverOutputPar(par)
    /\ pre' = state
    /\ op' = "output"
    /\ UNCHANGED <<kind, err, par0, sensorless, T_s, gain, nupd, T_arg, conv>>

\* FullOrderObserver.update: the new self.state
FullOrderObserverUpdateState(T, f) ==
    [i_s |-> CAdd(state.i_s, RMul(T, work.d_i_s)),
     psi_R |-> state.psi_R + Mul(T, work.d_psi_R),
     w_m |-> state.w_m + Mul(T, work.d_w_m),
     theta_s |-> Wrap(state.theta_s + Mul(T, f.w_s))]

\* FullOrderObserver.update(T_s, fbk), fbk the record the last output returned
FullOrderObserverUpdate(T) ==
    /\ kind = "FullOrderObserver"
    /\ "w_s" \in DOMAIN fbk
    /\ nupd < MaxSteps
    /\ InRange(FullOrderObserverUpdateState(T, fbk))
    /\ state' = FullOrderObserverUpdateState(T, fbk)
    /\ pre' = state
    /\ op' = "update"
    /\ nupd' = nupd + 1
    /\ T_arg' = T
    /\ UNCHANGED <<kind, err, par, par0, sensorless, T_s, gain, work, fbk,
                   loc, conv>>

-----------------------------------------------------------------------------
(* The observers' specification *)

\* the measured signals a caller hands to output: w_m only in sensored mode
Measured(sl) ==
    IF sl
    THEN { [u_ss |-> u, i_ss |-> i] : u \in USS, i \in ISS }
    ELSE { [u_ss |-> u, i_ss |-> i, w_m |-> w] : u \in USS, i \in ISS, w \in WM }

Next ==
    \/ \E p \in ModelPars, sl \in BOOLEAN, k \in KoArgs, ts \in {Scale} :
           ObserverInit(p, sl, k, ts)
    \/ \E p \in ModelPars, sl \in BOOLEAN, k \in KoArgs :
           FullOrderObserverInit(p, sl, k)
    \/ \E in \in Measured(sensorless) : ObserverOutput(in)
    \/ \E T \in TsSet : ObserverUpdate(T)
    \/ \E in \in Measured(sensorless) : FullOrderObserverOutput(in)
    \/ \E T \in TsSet : FullOrderObserverUpdate(T)

Spec == Init /\ [][Next]_vars

-----------------------------------------------------------------------------
(* FrequencyConverter: strong grid, diode bridge, LC filter *)

\* largest time (on the grid) f is evaluated at
MaxT == 10

\* np.sqrt(2) and np.sqrt(2/3) on the grid
Sqrt2 == 14
Sqrt2_3 == 8

Max2(a, b) == IF a >= b THEN a ELSE b
Min2(a, b) == IF a <= b THEN a ELSE b

\* FrequencyConverter.__init__
FrequencyConverterInit(L, C, U_g, f_g) ==
    /\ conv = NoRec
    /\ conv' = [L |-> L, C |-> C, i_L0 |-> 0, u_dc0 |-> Mul(Sqrt2, U_g),
                u_g |-> Mul(Sqrt2_3, U_g), w_g |-> Mul(2 * PI, f_g)]
    /\ op' = "init_FrequencyConverter"
    /\ UNCHANGED obsVars

\* FrequencyConverter.grid_voltages
grid_voltages(t) ==
    LET theta_g == Mul(conv.w_g, t)
    IN  << Mul(conv.u_g, Cos(theta_g)),
           Mul(conv.u_g, Cos(theta_g - Div(2 * PI, 3 * Scale))),
           Mul(conv.u_g, Cos(theta_g - Div(4 * PI, 3 * Scale))) >>

\* output voltage of the diode bridge: np.amax(u_g_abc) - np.amin(u_g_abc)
u_di(t) ==
    LET u == grid_voltages(t)
    IN  Max2(u[1], Max2(u[2], u[3])) - Min2(u[1], Min2(u[2], u[3]))

\* the inductor current derivative f returns, d the unconstrained one
Clamp_d_i_L(i_L, d) == IF i_L < 0 /\ d < 0 THEN 0 ELSE d

\* FrequencyConverter.f(t, u_dc, i_L, i_dc): [d_u_dc, d_i_L]
f(t, u_dc, i_L, i_dc) ==
    << Div(i_L - i_dc, conv.C),
       Clamp_d_i_L(i_L, Div(u_di(t) - u_dc, conv.L)) >>

\* a call of f; the arguments and the returned list are kept in conv
CallF(t, u_dc, i_L, i_dc) ==
    /\ "L" \in DOMAIN conv
    /\ conv' = [t |-> t, u_dc |-> u_dc, i_L |-> i_L, i_dc |-> i_dc,
                ret |-> f(t, u_dc, i_L, i_dc)]
               @@ [x \in {"L", "C", "i_L0", "u_dc0", "u_g", "w_g"} |-> conv[x]]
    /\ op' = "f"
    /\ UNCHANGED obsVars

NextConv ==
    \/ \E L \in {10, 20}, U_g \in {10, 20} :
           FrequencyConverterInit(L, Scale, U_g, Scale)
    \/ \E t \in 0 .. MaxT, u_dc \in {0, 10, 20, 40}, i_L \in {-10, 0, 10},
          i_dc \in {0, 10} :
           CallF(t, u_dc, i_L, i_dc)

SpecConv == Init /\ [][NextConv]_vars

-----------------------------------------------------------------------------
(* Properties *)

\* the w_s division (by den) is among the divisions the last output made
DividedByDen == \E d \in loc.divs : d[1] = "w_s"

\* the w_r division (by psi_R) is among the divisions the last output made
DividedForSlip == \E d \in loc.divs : d[1] = "w_r"

C2_PsiRNonNegative ==
    "psi_R" \in DOMAIN state => state.psi_R >= 0

\* C3 as stated: in Observer.output, psi_R <= 0 implies w_s = w_m with no
\* division by den
C3_Original ==
    (op = "output" /\ kind = "Observer" /\ fbk.psi_R <= 0) =>
        (fbk.w_s = fbk.w_m /\ ~DividedByDen)

\* C3 amended: in Observer.output with psi_R <= 0, w_s equals fbk.w_m with no
\* division by den when the denominator den is <= 0 as well; when den > 0
\* (which psi_R <= 0 does not exclude) the division is made and w_s is num/den
C3_FallbackOnDen ==
    (op = "output" /\ kind = "Observer" /\ fbk.psi_R <= 0) =>
        IF loc.den <= 0
        THEN fbk.w_s = fbk.w_m /\ ~DividedByDen
        ELSE fbk.w_s = Div(loc.num, loc.den) /\ <<"w_s", loc.den>> \in loc.divs

\* Observer.output fell back to a non-zero w_m with psi_R < 0 and den <= 0
C3_Witness ==
    /\ op = "output" /\ kind = "Observer"
    /\ fbk.psi_R < 0 /\ loc.den <= 0
    /\ fbk.w_m # 0

\* C4 as stated: in both variants den <= 0 implies no division by den and
\* w_s equal to the reported speed estimate fbk.w_m
C4_Original ==
    (op = "output" /\ loc.den <= 0) =>
        (fbk.w_s = fbk.w_m /\ ~DividedByDen)

\* C4 amended: den <= 0 implies no division by den; w_s then equals fbk.w_m
\* in Observer, and in FullOrderObserver the PI speed estimate
\* state.w_m + p_term, p_term = -alpha_o*L_sgm*Im(i_s - state.i_s)/psi_R when
\* psi_R > 0 and 0 otherwise
C4_FallbackOnSpeedEstimate ==
    (op = "output" /\ loc.den <= 0) =>
        /\ ~DividedByDen
        /\ kind = "Observer" => fbk.w_s = fbk.w_m
        /\ kind = "FullOrderObserver" =>
               fbk.w_s = state.w_m
                         + (IF fbk.psi_R > 0
                            THEN Div(Mul(Mul(-gain.alpha_o, par.L_sgm),
                                         fbk.i_s.im - state.i_s.im),
                                     fbk.psi_R)
                            ELSE 0)

\* FullOrderObserver.output fell back with den <= 0 and a non-zero P term
C4_Witness ==
    /\ op = "output" /\ kind = "FullOrderObserver"
    /\ loc.den <= 0 /\ fbk.psi_R > 0
    /\ fbk.w_s # fbk.w_m

\* C5: in Observer.output w_r is R_R*Im(i_s)/psi_R when psi_R > 0, and exactly
\* 0 with no division by psi_R when psi_R <= 0, sensorless or sensored
C5_SlipFrequency ==
    (op = "output" /\ kind = "Observer") =>
        IF fbk.psi_R > 0
        THEN fbk.w_r = Div(Mul(par.R_R, fbk.i_s.im), fbk.psi_R)
        ELSE fbk.w_r = 0 /\ ~DividedForSlip

\* sensored Observer.output with psi_R < 0 and a current with Im(i_s) != 0
C5_Witness ==
    /\ op = "output" /\ kind = "Observer" /\ ~sensorless
    /\ fbk.psi_R < 0 /\ fbk.i_s.im # 0

\* C6: f returns d_i_L = 0 whenever i_L <= 0 and the unconstrained
\* derivative (u_di - u_dc)/L is negative
C6_OneSidedConduction ==
    (op = "f" /\ conv.i_L <= 0
        /\ Div(u_di(conv.t) - conv.u_dc, conv.L) < 0) =>
        conv.ret[2] = 0

\* C7: constructing a FullOrderObserver with sensorless = False raises
\* NotImplementedError and yields no observer; with sensorless = True it
\* succeeds with psi_R = 0, i_s = 0, theta_s = 0, w_m = 0
C7_FullOrderConstruction ==
    /\ kind = "FullOrderObserver" => (sensorless /\ err = "none")
    /\ err # "none" => (kind = "none" /\ op = "init_FullOrderObserver")
    /\ op = "init_FullOrderObserver" =>
           IF sensorless
           THEN /\ kind = "FullOrderObserver" /\ err = "none"
                /\ state = [psi_R |-> 0, i_s |-> CZero, theta_s |-> 0,
                            w_m |-> 0]
           ELSE err = "NotImplementedError" /\ kind = "none"

\* the constructor was called with sensorless = False and raised
C7_Witness ==
    op = "init_FullOrderObserver" /\ ~sensorless /\ err = "NotImplementedError"

\* C8: output leaves the estimator state unchanged and returns the psi_R and
\* theta_s the state held before the call; only update changes the state
C8_OutputKeepsState ==
    /\ op = "output" =>
           (state = pre /\ fbk.psi_R = pre.psi_R /\ fbk.theta_s = pre.theta_s)
    /\ (pre # NoRec /\ state # pre) => op = "update"

\* an output call after an update that stored a non-zero flux derivative
C8_Witness ==
    /\ op = "output" /\ nupd > 0
    /\ work.d_psi_R # 0 /\ state.psi_R # 0

\* C9: the ModelPars object has the fields and values it had when the
\* observer was constructed
C9_ParsUnchanged == par = par0

\* C10: after every output call of either variant u_s, i_s, psi_R, theta_s,
\* w_s, w_m, psi_s and w_r are set on the returned fbk
C10_AllFieldsSet ==
    op = "output" =>
        {"u_s", "i_s", "psi_R", "theta_s", "w_s", "w_m", "psi_s", "w_r"}
            \subseteq DOMAIN fbk

\* C11: update is one forward-Euler step, over the T_s it is called with, of
\* the derivatives the most recent output computed: psi_R, w_m (and i_s in
\* the full-order variant) advance by T_s times d_psi_R, d_w_m (d_i_s), and
\* theta_s becomes wrap(theta_s + T_s*fbk.w_s)
C11_ForwardEuler ==
    (op = "update") =>
        /\ state.psi_R = pre.psi_R + Mul(T_arg, loc.d_psi_R)
        /\ state.w_m = pre.w_m + Mul(T_arg, loc.d_w_m)
        /\ state.theta_s = Wrap(pre.theta_s + Mul(T_arg, fbk.w_s))
        /\ kind = "FullOrderObserver" =>
               state.i_s = CAdd(pre.i_s, RMul(T_arg, loc.d_i_s))
        /\ work.d_psi_R = loc.d_psi_R /\ work.d_w_m = loc.d_w_m

\* a second update of the reduced-order observer, over a sampling period
\* other than the stored one, that moved psi_R and w_m
C11_Witness ==
    /\ op = "update" /\ kind = "Observer" /\ nupd = 2
    /\ T_arg = 5
    /\ state.psi_R # pre.psi_R /\ state.w_m # pre.w_m

\* C12: in the reduced-order Observer the discrete current derivative of an
\* output call is (i_s - old_i_s)/T_s with old_i_s and T_s as they were left
\* by the immediately preceding update (fbk.i_s and the T_s passed to it) or,
\* before any update, by the constructor (0 and its T_s); the full-order
\* observer keeps no previous current sample
C12_DiscreteDerivative ==
    [][ /\ (op' = "output" /\ kind = "Observer") =>
               /\ loc'.d_i_s = RDiv(CSub(fbk'.i_s, work.old_i_s), T_s)
               /\ work'.old_i_s = work.old_i_s
               /\ T_s' = T_s
        /\ (op' = "update" /\ kind = "Observer") =>
               (work'.old_i_s = fbk.i_s /\ T_s' = T_arg')
        /\ (op' = "init_Observer") =>
               (work'.old_i_s = CZero /\ T_s' = Scale)
        /\ (kind' = "FullOrderObserver") =>
               ("old_i_s" \notin DOMAIN work' /\ T_s' = T_s)
      ]_vars

\* an output call of the reduced-order observer after an update that stored
\* a non-zero current and a sampling period other than the constructor's
C12_Witness ==
    /\ op = "output" /\ kind = "Observer" /\ nupd > 0
    /\ work.old_i_s # CZero /\ T_s = 5
    /\ loc.d_i_s # CZero

=============================================================================
